---- MODULE Spec2Model ----
(***************************************************************************)
(* Model of src/lib.rs of bpfjit-sys: the BpfJit handle, its constructors  *)
(* new / new_ethernet / new_ip, matches, Clone and Drop, the process-wide  *)
(* mutex BIGLOCK, and the foreign resources the wrapper manipulates (dead  *)
(* capture sessions, compiled instruction arrays, JIT callables).          *)
(*                                                                         *)
(* Every thread runs one wrapper operation at a time; one action is one    *)
(* step of the Rust code between two foreign calls, so that interleavings  *)
(* of several threads inside the constructors are visible.                 *)
(***************************************************************************)
EXTENDS Integers, Sequences, FiniteSets, TLC

\* ---------------------------------------------------------------- bounds
NThreads == 2
MaxHandles == 2
MaxProgs == 2
MaxSessions == 2
MaxFilterLen == 1
MaxBufLen == 1

\* ------------------------------------------------------ program constants
LINKTYPE_ETHERNET == 1
LINKTYPE_RAW == 12
SNAPLEN == 65535
OPTIMIZE == 1
\* The netmask argument 0xffffffff, as the four bytes of the u32.
NETMASK == <<255, 255, 255, 255>>

Threads == 1..NThreads
NoThread == 0
HandleIds == 1..MaxHandles
Addrs == 1..MaxHandles
NULL == 0

\* Filter texts (&str) are byte strings; byte 0 is the NUL byte.
FilterBytes == {0, 97}
Filters == UNION {[1..n -> FilterBytes] : n \in 0..MaxFilterLen}
\* Packet buffers (&[u8]).
PktBytes == {7}
Buffers == UNION {[1..n -> PktBytes] : n \in 0..MaxBufLen}

\* ------------------------------------------------------------ bpf_insn_t
\* A classic BPF instruction; only code and k matter to this model.
Insn(c, kk) == [code |-> c, jt |-> 0, jf |-> 0, k |-> kk]
\* Instruction arrays the external compiler may produce on success:
\* accept-all ("ret #snaplen"), accept iff the packet is non-empty
\* ("ld #len; ret a"), and a program using an instruction the JIT engine
\* does not support.
CompilerOutputs ==
  { << Insn("ret_k", SNAPLEN) >>,
    << Insn("ld_len", 0), Insn("ret_a", 0) >>,
    << Insn("unsupported", 0), Insn("ret_k", SNAPLEN) >> }
\* The compiler's diagnostic for a rejected filter.
Diag == "syntax error"

\* bpf_program_t { bf_len, bf_insns }
ZeroProg == [bf_len |-> 0, bf_insns |-> NULL]
\* BpfJit { prog, ctx, cb } as left by mem::zeroed()
ZeroedBpfJit == [prog |-> ZeroProg, ctx |-> NULL, cb |-> NULL]
NoHandle == [prog |-> ZeroProg, ctx |-> NULL, cb |-> NULL, live |-> FALSE]
\* bpf_args_t as left by mem::zeroed()
ZeroArgs == [pkt |-> << >>, wirelen |-> 0, buflen |-> 0, mem |-> NULL, arg |-> NULL]
\* The local `pcap` before pcap_open_dead
\* No pcap_compile call has been made on the session.
NoCall == [str |-> << >>, optimize |-> 0, netmask |-> << >>]
NoSession == [state |-> "null", linktype |-> 0, snaplen |-> 0, errbuf |-> "",
              compile |-> NoCall]
\* What an operation gave back to its caller.
NoRet == [kind |-> "None", msg |-> << >>, h |-> 0, b |-> FALSE]
RetOk(hid) == [kind |-> "Ok", msg |-> << >>, h |-> hid, b |-> FALSE]
RetErr(m) == [kind |-> "Err", msg |-> m, h |-> 0, b |-> FALSE]
RetBool(v) == [kind |-> "Bool", msg |-> << >>, h |-> 0, b |-> v]
RetUnit == [kind |-> "Unit", msg |-> << >>, h |-> 0, b |-> FALSE]
RetPanic(m) == [kind |-> "Panic", msg |-> m, h |-> 0, b |-> FALSE]

Constructors == {"new_ethernet", "new_ip"}

VARIABLES
  lockHolder,    \* BIGLOCK: the thread owning the MutexGuard, or NoThread
  poisoned,      \* BIGLOCK's poison flag
  openSessions,  \* number of capture sessions opened and not closed
  insnHeap,      \* instruction arrays allocated by pcap_compile (index = pointer)
  jitCode,       \* JIT engine's heap: address -> code of the live callable, or << >>
  badFree,       \* bpfjit_free_code was called on something not live
  handles,       \* the BpfJit values owned by callers
  crashed,       \* the process died in a foreign call
  pc,            \* per thread: position in the running operation
  op,            \* per thread: the operation being run (or run last)
  filter,        \* per thread: argument `filter`
  self,          \* per thread: argument `self` (a handle id)
  data,          \* per thread: argument `data`
  pcap,          \* per thread: local `pcap`
  compiled,      \* per thread: local `compiled`
  result,        \* per thread: local `result`
  bpf_args,      \* per thread: local `bpf_args`
  ret            \* per thread: value returned by the last operation

globals == <<lockHolder, poisoned, openSessions, insnHeap, jitCode, badFree, handles, crashed>>
locals == <<pc, op, filter, self, data, pcap, compiled, result, bpf_args, ret>>
vars == <<globals, locals>>

\* -------------------------------------------------- foreign-code helpers

\* ffi::CString::new(filter): fails on an interior NUL byte, otherwise
\* yields the bytes followed by a NUL terminator.
HasNul(f) == \E i \in 1..Len(f) : f[i] = 0
CStringNew(f) ==
  IF HasNul(f) THEN [ok |-> FALSE, bytes |-> << >>]
  ELSE [ok |-> TRUE, bytes |-> Append(f, 0)]

\* The instructions the JIT engine reads: `len` records starting at `insns`.
ReadInsns(insns, len) ==
  IF insns = NULL \/ insns > Len(insnHeap) THEN << >>
  ELSE SubSeq(insnHeap[insns], 1, IF len < Len(insnHeap[insns]) THEN len ELSE Len(insnHeap[insns]))

\* Whether bpfjit_generate_code produces a callable for this code: a
\* deterministic function of the instructions.
JitAccepts(code) ==
  /\ Len(code) > 0
  /\ \A i \in 1..Len(code) : code[i].code # "unsupported"
  /\ code[Len(code)].code \in {"ret_k", "ret_a"}

\* The value a callable generated from `code` returns on `args`.
RECURSIVE RunFrom(_, _, _, _)
RunFrom(code, i, A, args) ==
  IF i > Len(code) THEN 0
  ELSE IF code[i].code = "ret_k" THEN code[i].k
  ELSE IF code[i].code = "ret_a" THEN A
  ELSE IF code[i].code = "ld_len" THEN RunFrom(code, i + 1, args.wirelen, args)
  ELSE 0
Run(code, args) == RunFrom(code, 1, 0, args)

FreeAddrs == {a \in Addrs : jitCode[a] = << >>}
LiveHandles == {h \in HandleIds : handles[h].live}
FreeHandleIds == HandleIds \ LiveHandles
NewHandleId == CHOOSE h \in FreeHandleIds : \A g \in FreeHandleIds : h <= g

CtorPcs == {"lock", "open_dead", "cstring", "compile", "in_compile", "close",
            "unlock", "check", "geterr", "jit"}
InFlight == {u \in Threads : pc[u] \in CtorPcs \cup {"clone_jit"}}
Using(h) == {u \in Threads : pc[u] \in {"clone_jit", "matches_call"} /\ self[u] = h}

\* Room for one more construction within the model's bounds.
CtorRoom ==
  /\ Cardinality(LiveHandles) + Cardinality(InFlight) < MaxHandles
  /\ Len(insnHeap)
       + Cardinality({u \in Threads : pc[u] \in {"lock", "open_dead", "cstring", "compile", "in_compile"}})
       < MaxProgs
  /\ openSessions + Cardinality({u \in Threads : pc[u] \in {"lock", "open_dead"}}) < MaxSessions

\* Room for one more handle within the model's bounds.
HandleRoom == Cardinality(LiveHandles) + Cardinality(InFlight) < MaxHandles

Idle(t) == ~crashed /\ pc[t] = "idle"

\* The caller discards the previous operation's result before the next call.
\* An Err built from a PoisonError still owns the MutexGuard it wraps.
DropPreviousResult(t) ==
  lockHolder' = IF lockHolder = t THEN NoThread ELSE lockHolder

\* The operation of thread t ends: its stack frame (arguments and locals)
\* is gone, the caller holds the returned value.
ClearFrame(t) ==
  /\ filter' = [filter EXCEPT ![t] = << >>]
  /\ self' = [self EXCEPT ![t] = 0]
  /\ data' = [data EXCEPT ![t] = << >>]
  /\ pcap' = [pcap EXCEPT ![t] = NoSession]
  /\ compiled' = [compiled EXCEPT ![t] = 0]
  /\ result' = [result EXCEPT ![t] = ZeroedBpfJit]
  /\ bpf_args' = [bpf_args EXCEPT ![t] = ZeroArgs]
Return(t, v) ==
  /\ pc' = [pc EXCEPT ![t] = "idle"]
  /\ ret' = [ret EXCEPT ![t] = v]
  /\ ClearFrame(t)
\* The operation of thread t panics: the thread unwinds and ends. Unwinding
\* drops the locals; a MutexGuard dropped by a panicking thread releases
\* the mutex and marks it poisoned.
Panic(t, m) ==
  /\ pc' = [pc EXCEPT ![t] = "panicked"]
  /\ ret' = [ret EXCEPT ![t] = RetPanic(m)]
  /\ ClearFrame(t)
  /\ lockHolder' = IF lockHolder = t THEN NoThread ELSE lockHolder
  /\ poisoned' = (poisoned \/ lockHolder = t)

\* bpfjit_free_code(func): releases a live callable; anything else (a
\* null, an address already freed) is recorded as a bad free.
FreeCode(cb) ==
  IF cb # NULL /\ jitCode[cb] # << >>
    THEN jitCode' = [jitCode EXCEPT ![cb] = << >>] /\ badFree' = badFree
    ELSE jitCode' = jitCode /\ badFree' = TRUE

\* Mutant of DropImpl: the callable is freed without the is_some test.
DropImpl_NoCheck(cb) == FreeCode(cb)

\* Drop::drop for BpfJit: `if self.cb.is_some() { bpfjit_free_code(self.cb) }`
DropImpl(cb) ==
  IF cb # NULL THEN FreeCode(cb) ELSE UNCHANGED <<jitCode, badFree>>

\* --------------------------------------------------------- constructors

\* Entry of a constructor body: `let mut result: BpfJit = mem::zeroed();`
Enter(t, o, f) ==
  /\ Idle(t)
  /\ CtorRoom
  /\ DropPreviousResult(t)
  /\ pc' = [pc EXCEPT ![t] = "lock"]
  /\ op' = [op EXCEPT ![t] = o]
  /\ filter' = [filter EXCEPT ![t] = f]
  /\ result' = [result EXCEPT ![t] = ZeroedBpfJit]
  /\ ret' = [ret EXCEPT ![t] = NoRet]
  /\ UNCHANGED <<self, data, pcap, compiled, bpf_args>>
  /\ UNCHANGED <<poisoned, openSessions, insnHeap, jitCode, badFree, handles, crashed>>

new_ethernet(t, f) == Enter(t, "new_ethernet", f)
new_ip(t, f) == Enter(t, "new_ip", f)
\* `BpfJit::new_ethernet(filter)` is the whole body of BpfJit::new
new(t, f) == new_ethernet(t, f)

\* Mutant of LinkType: every constructor opens an Ethernet session.
LinkType_AlwaysEthernet(o) == LINKTYPE_ETHERNET

\* First argument of pcap_open_dead: 1 in new_ethernet, 12 in new_ip.
LinkType(o) == IF o = "new_ip" THEN LINKTYPE_RAW ELSE LINKTYPE_ETHERNET

\* Mutant of Lock: the guard is taken without waiting for its holder.
Lock_NoWait(t) ==
  /\ ~crashed
  /\ pc[t] = "lock"
  /\ lockHolder' = t
  /\ pc' = [pc EXCEPT ![t] = "open_dead"]
  /\ UNCHANGED <<poisoned, openSessions, insnHeap, jitCode, badFree, handles, crashed>>
  /\ UNCHANGED <<op, ret, filter, self, data, pcap, compiled, result, bpf_args>>

\* Mutant of Lock: the poison flag of the mutex is ignored.
Lock_IgnorePoison(t) ==
  /\ ~crashed
  /\ pc[t] = "lock"
  /\ lockHolder = NoThread
  /\ lockHolder' = t
  /\ pc' = [pc EXCEPT ![t] = "open_dead"]
  /\ UNCHANGED <<poisoned, openSessions, insnHeap, jitCode, badFree, handles, crashed>>
  /\ UNCHANGED <<op, ret, filter, self, data, pcap, compiled, result, bpf_args>>

\* `let lock = BIGLOCK.lock()?;` blocks until the mutex is free. On a
\* poisoned mutex lock() returns Err(PoisonError(guard)) and `?` returns it
\* boxed: the guard travels inside the error value.
Lock(t) ==
  /\ ~crashed
  /\ pc[t] = "lock"
  /\ lockHolder = NoThread
  /\ lockHolder' = t
  /\ IF poisoned
       THEN /\ Return(t, RetErr(<<"poisoned lock: another task failed inside">>))
            /\ DropImpl(result[t].cb)
       ELSE /\ pc' = [pc EXCEPT ![t] = "open_dead"]
            /\ UNCHANGED <<ret, filter, self, data, pcap, compiled, result, bpf_args>>
            /\ UNCHANGED <<jitCode, badFree>>
  /\ UNCHANGED <<poisoned, openSessions, insnHeap, handles, crashed>>
  /\ UNCHANGED <<op>>

\* `let pcap = pcap_open_dead(linktype, 65535);`
PcapOpenDead(t) ==
  /\ ~crashed
  /\ pc[t] = "open_dead"
  /\ pcap' = [pcap EXCEPT ![t] = [state |-> "open", linktype |-> LinkType(op[t]),
                                  snaplen |-> SNAPLEN, errbuf |-> "",
                                  compile |-> NoCall]]
  /\ openSessions' = openSessions + 1
  /\ pc' = [pc EXCEPT ![t] = "cstring"]
  /\ UNCHANGED <<lockHolder, poisoned, insnHeap, jitCode, badFree, handles, crashed>>
  /\ UNCHANGED <<op, filter, self, data, compiled, result, bpf_args, ret>>

\* Mutant of CStringArg: the early return does not release the guard.
CStringArg_KeepGuard(t) ==
  /\ ~crashed
  /\ pc[t] = "cstring"
  /\ IF CStringNew(filter[t]).ok
       THEN /\ pc' = [pc EXCEPT ![t] = "compile"]
            /\ UNCHANGED <<ret, filter, self, data, pcap, compiled, result, bpf_args>>
       ELSE Return(t, RetErr(<<"nul byte found in provided data">>))
  /\ UNCHANGED <<lockHolder, poisoned, openSessions, insnHeap, jitCode, badFree, handles, crashed>>
  /\ UNCHANGED <<op>>

\* Mutant of CStringArg: the conversion is unwrapped, a NUL byte panics
\* inside the guarded section.
CStringArg_Unwrap(t) ==
  /\ ~crashed
  /\ pc[t] = "cstring"
  /\ IF CStringNew(filter[t]).ok
       THEN /\ pc' = [pc EXCEPT ![t] = "compile"]
            /\ UNCHANGED <<lockHolder, poisoned, ret, filter, self, data, pcap, compiled, result, bpf_args>>
            /\ UNCHANGED <<jitCode, badFree>>
       ELSE /\ Panic(t, <<"called Result::unwrap() on an Err value: NulError">>)
            /\ DropImpl(result[t].cb)
  /\ UNCHANGED <<openSessions, insnHeap, handles, crashed>>
  /\ UNCHANGED <<op>>

\* Argument `ffi::CString::new(filter)?.as_ptr()` of pcap_compile. On a NUL
\* byte `?` returns the error: the locals `lock` and `result` are dropped
\* (the guard is released, Drop for BpfJit sees cb == None); `pcap` is a raw
\* pointer and nothing closes it.
CStringArg(t) ==
  /\ ~crashed
  /\ pc[t] = "cstring"
  /\ IF CStringNew(filter[t]).ok
       THEN /\ pc' = [pc EXCEPT ![t] = "compile"]
            /\ UNCHANGED <<lockHolder, ret, filter, self, data, pcap, compiled, result, bpf_args>>
            /\ UNCHANGED <<jitCode, badFree>>
       ELSE /\ lockHolder' = NoThread
            /\ DropImpl(result[t].cb)
            /\ Return(t, RetErr(<<"nul byte found in provided data">>))
  /\ UNCHANGED <<poisoned, openSessions, insnHeap, handles, crashed>>
  /\ UNCHANGED <<op>>

\* The thread enters pcap_compile(pcap, &mut result.prog, str, 1, 0xffffffff);
\* the session keeps the arguments of the call.
PcapCompileCall(t) ==
  /\ ~crashed
  /\ pc[t] = "compile"
  /\ pc' = [pc EXCEPT ![t] = "in_compile"]
  /\ pcap' = [pcap EXCEPT ![t].compile =
                [str |-> CStringNew(filter[t]).bytes, optimize |-> OPTIMIZE,
                 netmask |-> NETMASK]]
  /\ UNCHANGED globals
  /\ UNCHANGED <<op, filter, self, data, compiled, result, bpf_args, ret>>

\* pcap_compile returns: 0 and a freshly allocated instruction array in
\* result.prog, or non-zero and a diagnostic in the session's error buffer.
PcapCompileReturn(t) ==
  /\ ~crashed
  /\ pc[t] = "in_compile"
  /\ \/ \E insns \in CompilerOutputs :
          /\ insnHeap' = Append(insnHeap, insns)
          /\ result' = [result EXCEPT ![t].prog =
                          [bf_len |-> Len(insns), bf_insns |-> Len(insnHeap) + 1]]
          /\ compiled' = [compiled EXCEPT ![t] = 0]
          /\ pcap' = pcap
     \/ /\ compiled' = [compiled EXCEPT ![t] = -1]
        /\ pcap' = [pcap EXCEPT ![t].errbuf = Diag]
        /\ UNCHANGED <<insnHeap, result>>
  /\ pc' = [pc EXCEPT ![t] = "close"]
  /\ UNCHANGED <<lockHolder, poisoned, openSessions, jitCode, badFree, handles, crashed>>
  /\ UNCHANGED <<op, filter, self, data, bpf_args, ret>>

\* `pcap_close(pcap);` frees the session, its error buffer included.
PcapClose(t) ==
  /\ ~crashed
  /\ pc[t] = "close"
  /\ pcap' = [pcap EXCEPT ![t].state = "closed"]
  /\ openSessions' = openSessions - 1
  /\ pc' = [pc EXCEPT ![t] = "unlock"]
  /\ UNCHANGED <<lockHolder, poisoned, insnHeap, jitCode, badFree, handles, crashed>>
  /\ UNCHANGED <<op, filter, self, data, compiled, result, bpf_args, ret>>

\* Mutant of DropLock: the guard is left to the end of the function.
DropLock_AtScopeEnd(t) ==
  /\ ~crashed
  /\ pc[t] = "unlock"
  /\ pc' = [pc EXCEPT ![t] = "check"]
  /\ UNCHANGED globals
  /\ UNCHANGED <<op, filter, self, data, pcap, compiled, result, bpf_args, ret>>

\* `drop(lock);`
DropLock(t) ==
  /\ ~crashed
  /\ pc[t] = "unlock"
  /\ lockHolder' = IF lockHolder = t THEN NoThread ELSE lockHolder
  /\ pc' = [pc EXCEPT ![t] = "check"]
  /\ UNCHANGED <<poisoned, openSessions, insnHeap, jitCode, badFree, handles, crashed>>
  /\ UNCHANGED <<op, filter, self, data, pcap, compiled, result, bpf_args, ret>>

\* `if compiled != 0 { ... }`
CheckCompiled(t) ==
  /\ ~crashed
  /\ pc[t] = "check"
  /\ pc' = [pc EXCEPT ![t] = IF compiled[t] # 0 THEN "geterr" ELSE "jit"]
  /\ UNCHANGED globals
  /\ UNCHANGED <<op, filter, self, data, pcap, compiled, result, bpf_args, ret>>

CompileErrPrefix == "could not compile cBPF expression: "

\* `return Err(format!(.., CStr::from_ptr(pcap_geterr(pcap)).to_str().unwrap()))`
\* pcap_geterr returns a pointer into the session. On an open session the
\* text is its error buffer. On a closed session the read is of freed
\* memory: the old text may still be there, other valid text may be, bytes
\* that are not UTF-8 may be (unwrap panics), or the process may fault.
GetErr(t) ==
  /\ ~crashed
  /\ pc[t] = "geterr"
  /\ \/ /\ pcap[t].state = "open"
        /\ Return(t, RetErr(<<CompileErrPrefix, pcap[t].errbuf>>))
        /\ DropImpl(result[t].cb)
        /\ UNCHANGED <<lockHolder, poisoned, crashed>>
     \/ /\ pcap[t].state = "closed"
        /\ \E text \in {pcap[t].errbuf, "garbage"} :
             Return(t, RetErr(<<CompileErrPrefix, text>>))
        /\ DropImpl(result[t].cb)
        /\ UNCHANGED <<lockHolder, poisoned, crashed>>
     \/ /\ pcap[t].state = "closed"
        /\ Panic(t, <<"called Result::unwrap() on an Err value: Utf8Error">>)
        /\ DropImpl(result[t].cb)
        /\ crashed' = crashed
     \/ /\ pcap[t].state = "closed"
        /\ crashed' = TRUE
        /\ UNCHANGED <<pc, ret, filter, self, data, pcap, compiled, result, bpf_args>>
        /\ UNCHANGED <<lockHolder, poisoned, jitCode, badFree>>
  /\ UNCHANGED <<openSessions, insnHeap, handles>>
  /\ UNCHANGED <<op>>

\* Mutant of JitGenerate: the is_none test is missing, Ok(result) is
\* returned whatever the JIT engine gave.
JitGenerate_NoNullCheck(t) ==
  /\ ~crashed
  /\ pc[t] = "jit"
  /\ LET code == ReadInsns(result[t].prog.bf_insns, result[t].prog.bf_len) IN
     \E a \in (IF JitAccepts(code) THEN FreeAddrs ELSE {NULL}) :
        /\ jitCode' = IF a = NULL THEN jitCode ELSE [jitCode EXCEPT ![a] = code]
        /\ handles' = [handles EXCEPT ![NewHandleId] =
                         [prog |-> result[t].prog, ctx |-> result[t].ctx,
                          cb |-> a, live |-> TRUE]]
        /\ badFree' = badFree
        /\ Return(t, RetOk(NewHandleId))
  /\ UNCHANGED <<lockHolder, poisoned, openSessions, insnHeap, crashed>>
  /\ UNCHANGED <<op>>

\* `result.cb = bpfjit_generate_code(result.ctx, result.prog.bf_insns, bf_len);`
\* `if result.cb.is_none() { return Err(..) }` `Ok(result)`
JitGenerate(t) ==
  /\ ~crashed
  /\ pc[t] = "jit"
  /\ LET code == ReadInsns(result[t].prog.bf_insns, result[t].prog.bf_len) IN
     IF JitAccepts(code)
       THEN \E a \in FreeAddrs :
              /\ jitCode' = [jitCode EXCEPT ![a] = code]
              /\ handles' = [handles EXCEPT ![NewHandleId] =
                               [prog |-> result[t].prog, ctx |-> result[t].ctx,
                                cb |-> a, live |-> TRUE]]
              /\ badFree' = badFree
              /\ Return(t, RetOk(NewHandleId))
       ELSE /\ Return(t, RetErr(<<"could not JIT cBPF expression">>))
            /\ DropImpl(NULL)
            /\ handles' = handles
  /\ UNCHANGED <<lockHolder, poisoned, openSessions, insnHeap, crashed>>
  /\ UNCHANGED <<op>>

\* ---------------------------------------------------------------- clone

\* Mutant of clone: `result.prog = self.prog;` is missing.
clone_NoProgCopy(t, h) ==
  /\ Idle(t)
  /\ handles[h].live
  /\ HandleRoom
  /\ DropPreviousResult(t)
  /\ pc' = [pc EXCEPT ![t] = "clone_jit"]
  /\ op' = [op EXCEPT ![t] = "clone"]
  /\ self' = [self EXCEPT ![t] = h]
  /\ result' = [result EXCEPT ![t] = ZeroedBpfJit]
  /\ ret' = [ret EXCEPT ![t] = NoRet]
  /\ UNCHANGED <<poisoned, openSessions, insnHeap, jitCode, badFree, handles, crashed>>
  /\ UNCHANGED <<filter, data, pcap, compiled, bpf_args>>

\* Clone::clone, first half: `let mut result: BpfJit = mem::zeroed();`
\* `result.prog = self.prog;`
clone(t, h) ==
  /\ Idle(t)
  /\ handles[h].live
  /\ HandleRoom
  /\ DropPreviousResult(t)
  /\ pc' = [pc EXCEPT ![t] = "clone_jit"]
  /\ op' = [op EXCEPT ![t] = "clone"]
  /\ self' = [self EXCEPT ![t] = h]
  /\ result' = [result EXCEPT ![t] = [ZeroedBpfJit EXCEPT !.prog = handles[h].prog]]
  /\ ret' = [ret EXCEPT ![t] = NoRet]
  /\ UNCHANGED <<poisoned, openSessions, insnHeap, jitCode, badFree, handles, crashed>>
  /\ UNCHANGED <<filter, data, pcap, compiled, bpf_args>>

\* Mutant of CloneJit: the clone copies the original's callable instead of
\* generating its own.
CloneJit_ShareCallable(t) ==
  /\ ~crashed
  /\ pc[t] = "clone_jit"
  /\ handles' = [handles EXCEPT ![NewHandleId] =
                   [prog |-> result[t].prog, ctx |-> result[t].ctx,
                    cb |-> handles[self[t]].cb, live |-> TRUE]]
  /\ Return(t, RetOk(NewHandleId))
  /\ UNCHANGED <<lockHolder, poisoned, openSessions, insnHeap, jitCode, badFree, crashed>>
  /\ UNCHANGED <<op>>

\* Clone::clone, second half: `result.cb = bpfjit_generate_code(..);`
\* `if result.cb.is_none() { panic!(..) }` `result`
CloneJit(t) ==
  /\ ~crashed
  /\ pc[t] = "clone_jit"
  /\ LET code == ReadInsns(result[t].prog.bf_insns, result[t].prog.bf_len) IN
     IF JitAccepts(code)
       THEN \E a \in FreeAddrs :
              /\ jitCode' = [jitCode EXCEPT ![a] = code]
              /\ handles' = [handles EXCEPT ![NewHandleId] =
                               [prog |-> result[t].prog, ctx |-> result[t].ctx,
                                cb |-> a, live |-> TRUE]]
              /\ badFree' = badFree
              /\ Return(t, RetOk(NewHandleId))
              /\ UNCHANGED <<lockHolder, poisoned>>
       ELSE /\ Panic(t, <<"could not JIT cBPF expression">>)
            /\ DropImpl(NULL)
            /\ handles' = handles
  /\ UNCHANGED <<openSessions, insnHeap, crashed>>
  /\ UNCHANGED <<op>>

\* -------------------------------------------------------------- matches

\* The args record matches builds for `data`.
MatchArgs(d) == [ZeroArgs EXCEPT !.pkt = d, !.wirelen = Len(d), !.buflen = Len(d)]
\* `callable(ctx, &mut bpf_args) != 0` for a callable with the given code.
MatchesValue(code, args) == Run(code, args) # 0

\* Mutant of matches: the args record is one static record that every
\* call fills in, not a local of the call.
matches_SharedArgs(t, h, d) ==
  /\ Idle(t)
  /\ handles[h].live
  /\ DropPreviousResult(t)
  /\ pc' = [pc EXCEPT ![t] = "matches_call"]
  /\ op' = [op EXCEPT ![t] = "matches"]
  /\ self' = [self EXCEPT ![t] = h]
  /\ data' = [data EXCEPT ![t] = d]
  /\ bpf_args' = [u \in Threads |-> MatchArgs(d)]
  /\ ret' = [ret EXCEPT ![t] = NoRet]
  /\ UNCHANGED <<poisoned, openSessions, insnHeap, jitCode, badFree, handles, crashed>>
  /\ UNCHANGED <<filter, pcap, compiled, result>>

\* BpfJit::matches, first half: the args record is zeroed and filled in.
matches(t, h, d) ==
  /\ Idle(t)
  /\ handles[h].live
  /\ DropPreviousResult(t)
  /\ pc' = [pc EXCEPT ![t] = "matches_call"]
  /\ op' = [op EXCEPT ![t] = "matches"]
  /\ self' = [self EXCEPT ![t] = h]
  /\ data' = [data EXCEPT ![t] = d]
  /\ bpf_args' = [bpf_args EXCEPT ![t] = MatchArgs(d)]
  /\ ret' = [ret EXCEPT ![t] = NoRet]
  /\ UNCHANGED <<poisoned, openSessions, insnHeap, jitCode, badFree, handles, crashed>>
  /\ UNCHANGED <<filter, pcap, compiled, result>>

\* Mutant of MatchesCall: the callable's return is compared with 1.
MatchesCall_EqOne(t) ==
  /\ ~crashed
  /\ pc[t] = "matches_call"
  /\ Return(t, RetBool(Run(jitCode[handles[self[t]].cb], bpf_args[t]) = 1))
  /\ UNCHANGED <<lockHolder, poisoned, openSessions, insnHeap, jitCode, badFree, handles, crashed>>
  /\ UNCHANGED <<op>>

\* Mutant of MatchesCall: the call waits until no thread holds BIGLOCK.
MatchesCall_WaitGuard(t) ==
  /\ ~crashed
  /\ pc[t] = "matches_call"
  /\ lockHolder = NoThread
  /\ Return(t, RetBool(MatchesValue(jitCode[handles[self[t]].cb], bpf_args[t])))
  /\ UNCHANGED <<lockHolder, poisoned, openSessions, insnHeap, jitCode, badFree, handles, crashed>>
  /\ UNCHANGED <<op>>

\* BpfJit::matches, second half: `self.cb.unwrap()(self.ctx, &mut bpf_args) != 0`
\* unwrap panics on None; calling a callable that was freed faults.
MatchesCall(t) ==
  /\ ~crashed
  /\ pc[t] = "matches_call"
  /\ LET cb == handles[self[t]].cb IN
     IF cb = NULL
       THEN Panic(t, <<"called Option::unwrap() on a None value">>) /\ crashed' = crashed
       ELSE IF jitCode[cb] = << >>
         THEN /\ crashed' = TRUE
              /\ UNCHANGED <<pc, ret, filter, self, data, pcap, compiled, result, bpf_args>>
              /\ UNCHANGED <<lockHolder, poisoned>>
         ELSE /\ Return(t, RetBool(MatchesValue(jitCode[cb], bpf_args[t])))
              /\ UNCHANGED <<lockHolder, poisoned, crashed>>
  /\ UNCHANGED <<openSessions, insnHeap, jitCode, badFree, handles>>
  /\ UNCHANGED <<op>>

\* ----------------------------------------------------------------- drop

\* Mutant of drop: the destructor also releases the program's instruction
\* array.
drop_FreeProg(t, h) ==
  /\ Idle(t)
  /\ handles[h].live
  /\ Using(h) = {}
  /\ DropPreviousResult(t)
  /\ DropImpl(handles[h].cb)
  /\ handles' = [handles EXCEPT ![h] = NoHandle]
  /\ insnHeap' = [insnHeap EXCEPT ![handles[h].prog.bf_insns] = << >>]
  /\ op' = [op EXCEPT ![t] = "drop"]
  /\ ret' = [ret EXCEPT ![t] = RetUnit]
  /\ UNCHANGED <<poisoned, openSessions, crashed>>
  /\ UNCHANGED <<pc, filter, self, data, pcap, compiled, result, bpf_args>>

\* Drop::drop of a handle its owner lets go of. Ownership (`&mut self`)
\* means no other thread is inside clone or matches on it.
drop(t, h) ==
  /\ Idle(t)
  /\ handles[h].live
  /\ Using(h) = {}
  /\ DropPreviousResult(t)
  /\ DropImpl(handles[h].cb)
  /\ handles' = [handles EXCEPT ![h] = NoHandle]
  /\ op' = [op EXCEPT ![t] = "drop"]
  /\ ret' = [ret EXCEPT ![t] = RetUnit]
  /\ UNCHANGED <<poisoned, openSessions, insnHeap, crashed>>
  /\ UNCHANGED <<pc, filter, self, data, pcap, compiled, result, bpf_args>>

\* ------------------------------------------------------------------ spec

Init ==
  /\ lockHolder = NoThread
  /\ poisoned = FALSE
  /\ openSessions = 0
  /\ insnHeap = << >>
  /\ jitCode = [a \in Addrs |-> << >>]
  /\ badFree = FALSE
  /\ handles = [h \in HandleIds |-> NoHandle]
  /\ crashed = FALSE
  /\ pc = [t \in Threads |-> "idle"]
  /\ op = [t \in Threads |-> "none"]
  /\ filter = [t \in Threads |-> << >>]
  /\ self = [t \in Threads |-> 0]
  /\ data = [t \in Threads |-> << >>]
  /\ pcap = [t \in Threads |-> NoSession]
  /\ compiled = [t \in Threads |-> 0]
  /\ result = [t \in Threads |-> ZeroedBpfJit]
  /\ bpf_args = [t \in Threads |-> ZeroArgs]
  /\ ret = [t \in Threads |-> NoRet]

Next ==
  \/ \E t \in Threads, f \in Filters : new(t, f)
  \/ \E t \in Threads, f \in Filters : new_ethernet(t, f)
  \/ \E t \in Threads, f \in Filters : new_ip(t, f)
  \/ \E t \in Threads : Lock(t)
  \/ \E t \in Threads : PcapOpenDead(t)
  \/ \E t \in Threads : CStringArg(t)
  \/ \E t \in Threads : PcapCompileCall(t)
  \/ \E t \in Threads : PcapCompileReturn(t)
  \/ \E t \in Threads : PcapClose(t)
  \/ \E t \in Threads : DropLock(t)
  \/ \E t \in Threads : CheckCompiled(t)
  \/ \E t \in Threads : GetErr(t)
  \/ \E t \in Threads : JitGenerate(t)
  \/ \E t \in Threads, h \in HandleIds : clone(t, h)
  \/ \E t \in Threads : CloneJit(t)
  \/ \E t \in Threads, h \in HandleIds, d \in Buffers : matches(t, h, d)
  \/ \E t \in Threads : MatchesCall(t)
  \/ \E t \in Threads, h \in HandleIds : drop(t, h)

Spec == Init /\ [][Next]_vars

\* The same program started with BIGLOCK in either state: clean, or
\* poisoned as std::sync::Mutex defines it (a holder of the guard panicked).
InitAnyGuard ==
  /\ lockHolder = NoThread
  /\ poisoned \in BOOLEAN
  /\ openSessions = 0
  /\ insnHeap = << >>
  /\ jitCode = [a \in Addrs |-> << >>]
  /\ badFree = FALSE
  /\ handles = [h \in HandleIds |-> NoHandle]
  /\ crashed = FALSE
  /\ pc = [t \in Threads |-> "idle"]
  /\ op = [t \in Threads |-> "none"]
  /\ filter = [t \in Threads |-> << >>]
  /\ self = [t \in Threads |-> 0]
  /\ data = [t \in Threads |-> << >>]
  /\ pcap = [t \in Threads |-> NoSession]
  /\ compiled = [t \in Threads |-> 0]
  /\ result = [t \in Threads |-> ZeroedBpfJit]
  /\ bpf_args = [t \in Threads |-> ZeroArgs]
  /\ ret = [t \in Threads |-> NoRet]

SpecAnyGuard == InitAnyGuard /\ [][Next]_vars

\* ------------------------------------------------------------ properties

InCompile == {t \in Threads : pc[t] = "in_compile"}
LiveCallables == {a \in Addrs : jitCode[a] # << >>}
OwnedCallables == {handles[h].cb : h \in LiveHandles}
Returned(t) == pc[t] = "idle" /\ ret[t].kind # "None"
NulErr == RetErr(<<"nul byte found in provided data">>)
JitErr == RetErr(<<"could not JIT cBPF expression">>)

\* C1: at most one thread is inside pcap_compile at any time, and a thread
\* inside pcap_compile holds BIGLOCK.
C1_CompileMutex ==
  /\ Cardinality(InCompile) <= 1
  /\ \A t \in InCompile : lockHolder = t
\* One thread is inside the compiler while another waits for the guard.
C1_Witness ==
  \E t, u \in Threads : pc[t] = "in_compile" /\ pc[u] = "lock" /\ lockHolder = t

\* C2: a thread that has left a constructor (returned or unwound) does not
\* hold BIGLOCK, whichever path it left by.
C2_GuardReleased ==
  \A t \in Threads :
    (pc[t] \in {"idle", "panicked"} /\ op[t] \in Constructors) => lockHolder # t
\* A constructor took the guard, failed to convert the filter, and returned.
C2_Witness ==
  \E t \in Threads : Returned(t) /\ op[t] \in Constructors /\ ret[t] = NulErr
                     /\ lockHolder = NoThread

\* C3: bpfjit_free_code is never called on a null or on a callable already
\* freed, and the callables the JIT engine has live are exactly those held by
\* the handles that exist: a callable is freed when, and only when, its
\* handle is destroyed.
C3_FreedExactlyOnce ==
  /\ ~badFree
  /\ LiveCallables = OwnedCallables
\* A construction failed at the JIT step, handles were destroyed, and no
\* callable is left.
C3_Witness ==
  /\ \E t \in Threads : Returned(t) /\ op[t] = "drop"
  /\ \E u \in Threads : Returned(u) /\ ret[u] = JitErr
  /\ LiveHandles = {} /\ LiveCallables = {}

\* C4: every handle a caller holds has the program of a successful compile
\* and a non-null live callable generated from that program; matches never
\* unwraps a null callable.
C4_NoHalfInitialized ==
  /\ \A h \in LiveHandles :
       /\ handles[h].prog.bf_insns \in 1..Len(insnHeap)
       /\ handles[h].prog.bf_len = Len(insnHeap[handles[h].prog.bf_insns])
       /\ handles[h].cb # NULL
       /\ jitCode[handles[h].cb] = insnHeap[handles[h].prog.bf_insns]
  /\ \A t \in Threads : pc[t] = "matches_call" => handles[self[t]].cb # NULL
\* matches is about to call the callable of a handle obtained by clone,
\* after a construction was refused by the JIT engine.
C4_Witness ==
  \E t, u \in Threads :
    /\ pc[t] = "matches_call"
    /\ Returned(u) /\ op[u] = "clone" /\ ret[u].kind = "Ok" /\ self[t] = ret[u].h
    /\ \E p \in 1..Len(insnHeap) : ~JitAccepts(insnHeap[p])

\* C5 (as claimed): pcap_geterr is never called on a session that
\* pcap_close has already closed.
C5_NoUseAfterClose ==
  \A t \in Threads : pc[t] = "geterr" => pcap[t].state = "open"

\* C6 (as claimed): every session a constructor opened is closed by the
\* time the constructor has returned: the only open sessions belong to
\* constructors still running.
C6_SessionsClosed ==
  openSessions = Cardinality({t \in Threads : pcap[t].state = "open"})

\* C7 (as claimed): a constructor that leaves returns Ok or Err; after a
\* non-zero compiler return code it returns Err carrying the compiler's
\* diagnostic; it returns Ok only after the compiler returned 0 and the JIT
\* engine gave a non-null callable.
C7_FailuresReported ==
  [][\A t \in Threads :
       (pc[t] \in CtorPcs /\ pc'[t] \notin CtorPcs) =>
         /\ ret'[t].kind \in {"Ok", "Err"}
         /\ (compiled[t] # 0 => ret'[t] = RetErr(<<CompileErrPrefix, Diag>>))
         /\ (ret'[t].kind = "Ok" =>
               /\ pc[t] = "jit" /\ compiled[t] = 0
               /\ handles'[ret'[t].h].live /\ handles'[ret'[t].h].cb # NULL)]_vars

\* C8: the guard is held from the lock to the drop(lock) only, and a
\* thread at the JIT call (of a constructor or of clone) does not hold it; a
\* constructor reaches the JIT call only with compiled = 0, a compiled
\* program in result.prog and its session closed.
C8_JitOutsideGuard ==
  /\ \A t \in Threads :
       lockHolder = t =>
         pc[t] \in {"open_dead", "cstring", "compile", "in_compile", "close", "unlock"}
  /\ \A t \in Threads :
       pc[t] = "jit" =>
         /\ lockHolder # t
         /\ compiled[t] = 0
         /\ result[t].prog.bf_insns \in 1..Len(insnHeap)
         /\ pcap[t].state = "closed"
  /\ \A t \in Threads : pc[t] = "clone_jit" => lockHolder # t
\* A constructor is at its JIT call while another thread holds the guard.
C8_Witness ==
  \E t, u \in Threads : pc[t] = "jit" /\ u # t /\ lockHolder = u

\* C9: two handles never hold the same callable and a handle's callable is
\* live whatever handles were destroyed before; a thread inside clone holds
\* no guard and has opened no session.
C9_CloneNotShared ==
  /\ \A h, g \in LiveHandles : h # g => handles[h].cb # handles[g].cb
  /\ \A h \in LiveHandles : handles[h].cb # NULL /\ jitCode[handles[h].cb] # << >>
  /\ \A t \in Threads :
       pc[t] = "clone_jit" => lockHolder # t /\ pcap[t] = NoSession /\ compiled[t] = 0
\* A clone was made into handle 2 while handle 1 existed, handle 1 has been
\* destroyed since, and matches is about to run on the clone.
C9_Witness ==
  \E t, u \in Threads :
    /\ Returned(t) /\ op[t] = "clone" /\ ret[t] = RetOk(2)
    /\ Returned(u) /\ op[u] = "drop"
    /\ handles[2].live /\ ~handles[1].live
    /\ Len(insnHeap) = 1

\* C10: a clone step never panics: it returns a live handle whose matches
\* result equals the original's on every buffer.
C10_CloneEquivalent ==
  [][\A t \in Threads :
       (pc[t] = "clone_jit" /\ pc'[t] # "clone_jit") =>
         /\ pc'[t] = "idle"
         /\ ret'[t].kind = "Ok"
         /\ handles'[ret'[t].h].live
         /\ ret'[t].h # self[t]
         /\ \A d \in Buffers :
              MatchesValue(jitCode'[handles'[ret'[t].h].cb], MatchArgs(d))
                = MatchesValue(jitCode[handles[self[t]].cb], MatchArgs(d))]_vars
\* A clone of a handle whose filter accepts some buffers and rejects others
\* has returned, and original and clone both exist.
C10_Witness ==
  \E t \in Threads :
    /\ Returned(t) /\ op[t] = "clone" /\ ret[t].kind = "Ok"
    /\ LiveHandles = HandleIds
    /\ handles[1].prog = handles[2].prog
    /\ \E d, e \in Buffers :
         MatchesValue(jitCode[handles[ret[t].h].cb], MatchArgs(d))
           # MatchesValue(jitCode[handles[ret[t].h].cb], MatchArgs(e))

\* The value the callable of handle h returns for the buffer d.
CallableReturn(h, d) == Run(jitCode[handles[h].cb], MatchArgs(d))

\* C11: matches is a pure function of the buffer for a fixed handle. A call
\* in progress is on a live handle with a live callable (it neither panics
\* nor faults); when it returns, it returns true exactly when the handle's
\* callable returns non-zero for the buffer; and no step of any operation
\* changes a handle that stays alive, its callable's code or its program's
\* instructions, so the same buffer gives the same result later.
C11_MatchesPure ==
  /\ [](\A t \in Threads :
          pc[t] = "matches_call" =>
            /\ handles[self[t]].live
            /\ handles[self[t]].cb # NULL
            /\ jitCode[handles[self[t]].cb] # << >>)
  /\ [][\A t \in Threads :
         (pc[t] = "matches_call" /\ pc'[t] # "matches_call") =>
           /\ pc'[t] = "idle"
           /\ ret'[t] = RetBool(CallableReturn(self[t], data[t]) # 0)]_vars
  /\ [][\A h \in HandleIds :
         (handles[h].live /\ handles'[h].live) =>
           /\ handles'[h] = handles[h]
           /\ jitCode'[handles[h].cb] = jitCode[handles[h].cb]
           /\ insnHeap'[handles[h].prog.bf_insns] = insnHeap[handles[h].prog.bf_insns]]_vars
\* matches has returned true for one buffer and false for another on the
\* only handle there is, whose program was compiled twice over.
C11_Witness ==
  /\ \E t, u \in Threads :
       /\ Returned(t) /\ op[t] = "matches" /\ ret[t] = RetBool(TRUE)
       /\ Returned(u) /\ op[u] = "matches" /\ ret[u] = RetBool(FALSE)
  /\ Cardinality(LiveHandles) = 1
  /\ Len(insnHeap) = MaxProgs

\* Thread t takes a step of matches: it enters it or leaves it.
MatchesStep(t) ==
  \/ pc[t] = "idle" /\ pc'[t] = "matches_call"
  \/ pc[t] = "matches_call" /\ pc'[t] # "matches_call"
\* Everything but thread t's own frame and return value.
OthersLocals(t) ==
  [u \in Threads \ {t} |->
     <<pc[u], op[u], filter[u], self[u], data[u], pcap[u], compiled[u],
       result[u], bpf_args[u], ret[u]>>]

\* C12: matches takes no lock and has no side effect. A call in progress
\* can always take its step, whoever holds BIGLOCK; and a step of matches
\* leaves the guard, the sessions, the instruction arrays, the callables,
\* every handle and every other thread's frame as they were: it writes
\* only its own args record and its own result.
C12_MatchesNoLock ==
  /\ [](\A t \in Threads :
          (pc[t] = "matches_call" /\ ~crashed) => ENABLED MatchesCall(t))
  /\ [][\A t \in Threads :
         MatchesStep(t) =>
           /\ UNCHANGED <<lockHolder, poisoned, openSessions, insnHeap,
                          jitCode, badFree, handles, crashed>>
           /\ OthersLocals(t)' = OthersLocals(t)]_vars
\* matches is about to call the callable while another thread is inside
\* pcap_compile, holding the guard.
C12_Witness ==
  \E t, u \in Threads :
    /\ pc[t] = "matches_call" /\ bpf_args[t] # ZeroArgs
    /\ pc[u] = "in_compile" /\ lockHolder = u

\* What a call of matches on handle h with buffer d returns when it runs
\* alone, from the handle's program.
SequentialResult(h, d) ==
  RetBool(Run(insnHeap[handles[h].prog.bf_insns], MatchArgs(d)) # 0)

\* C13: concurrent calls of matches on one handle return what they return
\* run one after the other. Each call in progress has its own args record,
\* holding its own buffer whatever the other threads do; the handle a call
\* runs on does not change during the call; and each call returns the
\* result of a lone call on its handle and its buffer.
C13_ConcurrentMatches ==
  /\ [](\A t \in Threads :
          pc[t] = "matches_call" => bpf_args[t] = MatchArgs(data[t]))
  /\ [][\A t \in Threads :
         pc[t] = "matches_call" =>
           /\ handles'[self[t]] = handles[self[t]]
           /\ pc'[t] # "matches_call" => ret'[t] = SequentialResult(self[t], data[t])]_vars
\* Two threads are inside matches on the same handle with different
\* buffers, which the handle's filter tells apart.
C13_Witness ==
  \E t, u \in Threads :
    /\ t # u /\ pc[t] = "matches_call" /\ pc[u] = "matches_call"
    /\ self[t] = self[u] /\ data[t] # data[u]
    /\ SequentialResult(self[t], data[t]) # SequentialResult(self[u], data[u])

\* The constructor thread t runs is past its pcap_compile call.
CompileCalled(t) == pc[t] \in {"in_compile", "close", "unlock", "check", "geterr", "jit"}

\* C14: new is new_ethernet: a step is a step of one exactly when it is a
\* step of the other. Every constructor opens its session with snapshot
\* length 65535 and link type 1, new_ip with link type 12, and calls
\* pcap_compile on it with the filter text as a C string, optimize 1 and
\* netmask 0xffffffff; a new_ethernet and a new_ip at the same point after
\* the guarded section, with the same filter and the same compiler return
\* code, have sessions that differ in the link type only.
C14_SameCalls ==
  /\ [][\A t \in Threads, f \in Filters : new(t, f) <=> new_ethernet(t, f)]_vars
  /\ [](\A t \in Threads :
          /\ pcap[t].state # "null" =>
                /\ op[t] \in Constructors
                /\ pcap[t].snaplen = 65535
                /\ pcap[t].linktype = (IF op[t] = "new_ip" THEN 12 ELSE 1)
          /\ (op[t] \in Constructors /\ CompileCalled(t)) =>
                pcap[t].compile = [str |-> filter[t] \o <<0>>, optimize |-> 1,
                                   netmask |-> <<255, 255, 255, 255>>]
          /\ (pcap[t].state # "null" /\ ~CompileCalled(t)) => pcap[t].compile = NoCall)
  /\ [](\A t, u \in Threads :
          (op[t] = "new_ethernet" /\ op[u] = "new_ip" /\ pc[t] = pc[u]
             /\ filter[t] = filter[u] /\ compiled[t] = compiled[u]
             /\ pc[t] \in {"check", "geterr", "jit"}) =>
            [pcap[u] EXCEPT !.linktype = 1] = pcap[t])
\* A new_ethernet and a new_ip constructor, given the same filter, have both
\* made their pcap_compile call, on sessions of link type 1 and 12.
C14_Witness ==
  \E t, u \in Threads :
    /\ op[t] = "new_ethernet" /\ op[u] = "new_ip" /\ filter[t] = filter[u]
    /\ pc[t] = "jit" /\ pc[u] = "in_compile"
    /\ pcap[t].linktype = 1 /\ pcap[u].linktype = 12
    /\ pcap[t].compile = pcap[u].compile /\ pcap[t].compile # NoCall

LockErr == RetErr(<<"poisoned lock: another task failed inside">>)

\* C18: BIGLOCK is never poisoned and no constructor ever returns the lock
\* error: no thread panics while it holds the guard.
C18_NeverPoisoned ==
  /\ ~poisoned
  /\ \A t \in Threads : ret[t] # LockErr
  /\ \A t \in Threads : pc[t] = "panicked" => lockHolder # t
\* A constructor has panicked (reading the diagnostic after the guarded
\* section), another one has failed inside the guarded section on a NUL
\* byte, and the guard is free and clean.
C18_Witness ==
  \E t, u \in Threads :
    /\ pc[t] = "panicked" /\ op[t] \in Constructors
    /\ Returned(u) /\ ret[u] = NulErr
    /\ lockHolder = NoThread /\ ~poisoned

\* C15: with BIGLOCK poisoned a constructor fails at its first step with
\* the lock error and has done nothing else: the step that leaves the lock
\* call returns the error, opens no session, allocates no program, generates
\* no callable and makes no handle; and while the guard is poisoned no
\* thread is past the lock call, no session is open and no program,
\* callable or handle exists.
C15_PoisonedFailsFirst ==
  /\ [][\A t \in Threads :
         (poisoned /\ pc[t] = "lock" /\ pc'[t] # "lock") =>
           /\ pc'[t] = "idle" /\ ret'[t] = LockErr
           /\ UNCHANGED <<openSessions, insnHeap, jitCode, badFree, handles>>
           /\ pcap'[t] = NoSession]_vars
  /\ [](poisoned =>
          /\ \A t \in Threads : pc[t] \in {"idle", "lock"}
          /\ openSessions = 0 /\ insnHeap = << >>
          /\ LiveCallables = {} /\ LiveHandles = {})
\* With the guard poisoned, one constructor has returned the lock error
\* and another is at its lock call.
C15_Witness ==
  \E t, u \in Threads :
    /\ poisoned /\ Returned(t) /\ op[t] \in Constructors /\ ret[t] = LockErr
    /\ pc[u] = "lock"

\* The instruction arrays pcap_compile has allocated and nothing has freed.
AllocatedProgs == {p \in 1..Len(insnHeap) : insnHeap[p] # << >>}

\* C16: no operation releases an instruction array. Every array
\* pcap_compile ever allocated is still allocated, with its contents, after
\* every step; so the pointer of every handle, a clone's copy included,
\* points to an allocated array of the recorded length.
C16_ProgNeverFreed ==
  /\ [][/\ Len(insnHeap') >= Len(insnHeap)
        /\ \A p \in 1..Len(insnHeap) : insnHeap'[p] = insnHeap[p]]_vars
  /\ [](/\ AllocatedProgs = 1..Len(insnHeap)
        /\ \A h \in LiveHandles :
             /\ handles[h].prog.bf_insns \in AllocatedProgs
             /\ handles[h].prog.bf_len = Len(insnHeap[handles[h].prog.bf_insns]))
\* A program was refused by the JIT engine, another was built into a handle
\* and cloned, every handle has been destroyed since, and both instruction
\* arrays are still allocated.
C16_Witness ==
  /\ \E t, u \in Threads :
       /\ Returned(t) /\ op[t] = "drop"
       /\ Returned(u) /\ op[u] = "drop"
       /\ t # u
  /\ LiveHandles = {} /\ LiveCallables = {}
  /\ Len(insnHeap) = 2 /\ AllocatedProgs = {1, 2}
  /\ \E p \in AllocatedProgs : ~JitAccepts(insnHeap[p])

\* The guard part of C17: a thread at its lock call does not hold the guard
\* already, and the holder of the guard is at a step it can take.
GuardNoDeadlock ==
  \A t \in Threads :
    /\ pc[t] = "lock" => lockHolder # t
    /\ lockHolder = t =>
          pc[t] \in {"open_dead", "cstring", "compile", "in_compile", "close", "unlock"}

\* C17 (as claimed): every constructor call ends by returning a handle or an
\* error. No constructor call ends in a panic, no constructor call is cut
\* short by a fault of the process, and the guard is never held by a thread
\* that cannot go on to release it.
C17_CtorsFinish ==
  /\ GuardNoDeadlock
  /\ \A t \in Threads :
       /\ (op[t] \in Constructors /\ pc[t] \notin CtorPcs) =>
             (pc[t] = "idle" /\ ret[t].kind \in {"Ok", "Err"})
       /\ crashed => pc[t] \notin CtorPcs

====
